---------------------------- MODULE Spec2Model ----------------------------
(***************************************************************************)
(* A model of todoscan: the loading of the configuration files            *)
(* (loadConfigs), the directory walk (scanDirectory), the per-file line    *)
(* scanner (scanFileForTodos), the annotation extraction done by the Todo  *)
(* constructor, and the filtering and summary of the scan command.         *)
(*                                                                         *)
(* Text is modelled as a sequence of one-character strings, so that the    *)
(* regular expressions, split, trim, toLowerCase and parseInt of the code  *)
(* are computed character by character.                                    *)
(***************************************************************************)
EXTENDS Integers, Sequences, FiniteSets, TLC

VARIABLES
    sharedConfig,    \* the configuration in force (index.ts, sharedConfig)
    localConfig,     \* the local configuration (index.ts, localConfig), or None
    tagTokens,       \* input of the Todo constructor: the tokens of the line
    content,         \* the content string handed to the Todo constructor
    todo,            \* the constructed Todo, or None
    fileLines,       \* input of the file scanner: the lines of the file
    fileData,        \* the file's content, or None when it cannot be read
    fileTodos,       \* what scanFileForTodos returned, or None before the call
    pc,              \* where the action of the scan command is
    fs,              \* the directory tree that is scanned: node number -> node
    stack,           \* the pending calls of scanDirectory, innermost last
    walkResult,      \* what the outermost scanDirectory returned, or None
    options,         \* the options of the scan command
    clock,           \* the time when the scan command starts
    results,         \* the filtered Todos, or None before the filters ran
    summary          \* the counts of the summary, or None when not computed

\* An optional value (a property that may be undefined, a match that may be
\* null) is a sequence: empty when absent, of the one value when present.
None == <<>>
Some(v) == <<v>>

(***************************************************************************)
(* Characters and strings                                                  *)
(***************************************************************************)
Digits == <<"0", "1", "2", "3", "4", "5", "6", "7", "8", "9">>

LowerCase == <<"a", "b", "c", "d", "e", "f", "g", "h", "i", "j", "k", "l", "m",
               "n", "o", "p", "q", "r", "s", "t", "u", "v", "w", "x", "y", "z">>

UpperCase == <<"A", "B", "C", "D", "E", "F", "G", "H", "I", "J", "K", "L", "M",
               "N", "O", "P", "Q", "R", "S", "T", "U", "V", "W", "X", "Y", "Z">>

Range(s) == {s[i] : i \in DOMAIN s}

\* \d of a JavaScript regular expression
DigitChars == Range(Digits)

\* \w of a JavaScript regular expression: [A-Za-z0-9_]
WordChars == Range(LowerCase) \cup Range(UpperCase) \cup DigitChars \cup {"_"}

\* the character class [\w+,] of the @resp pattern
RespChars == WordChars \cup {"+", ","}

\* the characters String.prototype.trim removes (those the model's texts use)
WhiteSpace == {" ", "\t", "\r", "\n"}

IndexOf(seq, c) == CHOOSE i \in DOMAIN seq : seq[i] = c

\* String.prototype.toLowerCase, one character
ToLowerChar(c) == IF c \in Range(UpperCase) THEN LowerCase[IndexOf(UpperCase, c)] ELSE c

\* String.prototype.toLowerCase
toLowerCase(s) == [i \in 1..Len(s) |-> ToLowerChar(s[i])]

\* the literal lit occurs in s at position i
LitAt(s, i, lit) ==
    /\ i >= 1
    /\ i + Len(lit) - 1 <= Len(s)
    /\ SubSeq(s, i, i + Len(lit) - 1) = lit

\* the length of the longest run of characters of cls in s starting at i
\* (a greedy cls* of a regular expression)
RunLen(s, i, cls) ==
    CHOOSE n \in 0..(Len(s) - i + 1) :
        /\ \A k \in 0..(n - 1) : s[i + k] \in cls
        /\ (n = Len(s) - i + 1 \/ s[i + n] \notin cls)

Min(S) == CHOOSE x \in S : \A y \in S : x <= y

\* String.prototype.split with a one-character separator
RECURSIVE split(_, _)
split(s, sep) ==
    IF \E i \in 1..Len(s) : s[i] = sep
    THEN LET i == Min({j \in 1..Len(s) : s[j] = sep})
         IN  <<SubSeq(s, 1, i - 1)>> \o split(SubSeq(s, i + 1, Len(s)), sep)
    ELSE <<s>>

\* String.prototype.trim
trim(s) ==
    LET keep == {i \in 1..Len(s) : s[i] \notin WhiteSpace}
    IN  IF keep = {} THEN <<>>
        ELSE SubSeq(s, Min(keep), CHOOSE j \in keep : \A k \in keep : k <= j)

\* parseInt of a string of decimal digits
RECURSIVE parseInt(_)
parseInt(s) ==
    IF s = <<>> THEN 0
    ELSE 10 * parseInt(SubSeq(s, 1, Len(s) - 1)) + (IndexOf(Digits, s[Len(s)]) - 1)

(***************************************************************************)
(* Dates.  A Date is an instant of local time: a day number (days since    *)
(* 1970-01-01) and the milliseconds since that day's midnight.             *)
(***************************************************************************)
\* the day number of the civil date y-m-d (m in 1..12)
DaysFromCivil(y, m, d) ==
    LET yy  == IF m <= 2 THEN y - 1 ELSE y
        era == yy \div 400
        yoe == yy - era * 400
        mp  == IF m > 2 THEN m - 3 ELSE m + 9
        doy == (153 * mp + 2) \div 5 + d - 1
        doe == yoe * 365 + yoe \div 4 - yoe \div 100 + doy
    IN  era * 146097 + doe - 719468

\* the civil date of a day number: getFullYear, getMonth() + 1, getDate
CivilFromDays(z) ==
    LET zz  == z + 719468
        era == zz \div 146097
        doe == zz - era * 146097
        yoe == (doe - doe \div 1460 + doe \div 36524 - doe \div 146096) \div 365
        doy == doe - (365 * yoe + yoe \div 4 - yoe \div 100)
        mp  == (5 * doy + 2) \div 153
        d   == doy - (153 * mp + 2) \div 5 + 1
        m   == IF mp < 10 THEN mp + 3 ELSE mp - 9
        y   == yoe + era * 400 + (IF m <= 2 THEN 1 ELSE 0)
    IN  [year |-> y, month |-> m, day |-> d]

\* new Date(year, monthIndex, day): a year 0..99 means 1900 + year, a month
\* index outside 0..11 carries into the year, and a day outside the month
\* carries into the neighbouring months; the time is local midnight.  The
\* constructor never throws.
NewDate(year, monthIndex, day) ==
    LET fullYear == IF year >= 0 /\ year <= 99 THEN 1900 + year ELSE year
        ym       == fullYear + (monthIndex \div 12)
        mn       == monthIndex % 12
    IN  [day |-> DaysFromCivil(ym, mn + 1, 1) + day - 1, ms |-> 0]

(***************************************************************************)
(* enum Priority                                                           *)
(***************************************************************************)
Priority ==
    [Low    |-> <<"l", "o", "w">>,
     Medium |-> <<"m", "e", "d", "i", "u", "m">>,
     High   |-> <<"h", "i", "g", "h">>]

(***************************************************************************)
(* class Todo                                                              *)
(***************************************************************************)
AtPrio == <<"@", "p", "r", "i", "o", "=">>
AtDue  == <<"@", "d", "u", "e", "=">>
AtResp == <<"@", "r", "e", "s", "p", "=">>

\* this.content.match(/@prio=(\w+)/): the captured word of the first match
MatchPrio(s) ==
    LET at == {i \in 1..Len(s) : LitAt(s, i, AtPrio) /\ RunLen(s, i + 6, WordChars) >= 1}
    IN  IF at = {} THEN None
        ELSE Some(SubSeq(s, Min(at) + 6, Min(at) + 5 + RunLen(s, Min(at) + 6, WordChars)))

\* /\d{4}-\d{2}-\d{2}/ at position i
DatePatternAt(s, i) ==
    /\ i + 9 <= Len(s)
    /\ \A k \in {0, 1, 2, 3, 5, 6, 8, 9} : s[i + k] \in DigitChars
    /\ s[i + 4] = "-"
    /\ s[i + 7] = "-"

\* this.content.match(/@due=(\d{4}-\d{2}-\d{2})/): the captured date text
MatchDue(s) ==
    LET at == {i \in 1..Len(s) : LitAt(s, i, AtDue) /\ DatePatternAt(s, i + 5)}
    IN  IF at = {} THEN None ELSE Some(SubSeq(s, Min(at) + 5, Min(at) + 14))

\* this.content.match(/@resp=([\w+,]+)/): the captured list text
MatchResp(s) ==
    LET at == {i \in 1..Len(s) : LitAt(s, i, AtResp) /\ RunLen(s, i + 6, RespChars) >= 1}
    IN  IF at = {} THEN None
        ELSE Some(SubSeq(s, Min(at) + 6, Min(at) + 5 + RunLen(s, Min(at) + 6, RespChars)))

\* the switch of an earlier revision of determinePriority, whose cases have
\* no break and fall through to the last assignment
PriorityFallThrough(s) ==
    LET match == MatchPrio(s)
    IN  IF match = None THEN None
        ELSE LET word == toLowerCase(match[1])
             IN  IF word \in {<<"l", "o", "w">>, <<"m", "e", "d", "i", "u", "m">>,
                              <<"h", "i", "g", "h">>}
                 THEN Some(Priority.High)
                 ELSE None

\* Todo.determinePriority: the value left in this.priority
determinePriority(s) ==
    LET match == MatchPrio(s)
    IN  IF match = None THEN None
        ELSE LET word == toLowerCase(match[1])
             IN  CASE word = <<"l", "o", "w">> -> Some(Priority.Low)
                   [] word = <<"m", "e", "d", "i", "u", "m">> -> Some(Priority.Medium)
                   [] word = <<"h", "i", "g", "h">> -> Some(Priority.High)
                   [] OTHER -> None

\* Todo.determineDueDate: the value left in this.dueDate
determineDueDate(s) ==
    LET match == MatchDue(s)
    IN  IF match = None THEN None
        ELSE LET dateParts == split(match[1], "-")
             IN  Some(NewDate(parseInt(dateParts[1]),
                              parseInt(dateParts[2]) - 1,
                              parseInt(dateParts[3]) - 1))

NonEmpty(el) == el # <<>>

\* Todo.determineResponsibles: the value left in this.responsibles
\* (Array.prototype.filter is SelectSeq)
determineResponsibles(s) ==
    LET match == MatchResp(s)
    IN  IF match = None THEN None ELSE Some(SelectSeq(split(match[1], ","), NonEmpty))

\* new Todo(path, line, content)
Todo(path, line, text) ==
    [path         |-> path,
     line         |-> line,
     content      |-> text,
     priority     |-> determinePriority(text),
     dueDate      |-> determineDueDate(text),
     responsibles |-> determineResponsibles(text)]


(***************************************************************************)
(* BaseConfig and scanFileForTodos                                         *)
(***************************************************************************)
BaseLimit == 300

\* a configuration: each property is present or, as in a configuration file
\* that leaves it out, undefined
Config(regex, limit, caseSensitive, directoryExceptions) ==
    [pattern |-> Some([regex |-> regex, limit |-> limit,
                       caseSensitive |-> caseSensitive]),
     encoding |-> Some("utf-8"),
     directoryExceptions |-> Some(directoryExceptions)]

\* the regex of BaseConfig, and a regex without the word boundaries
BaseRegex == "\\btodo\\b"
BareRegex == "todo"

BaseConfig ==
    Config(BaseRegex, BaseLimit, FALSE, {"vendor", "node_modules", ".git", "sass", "js", "Migrations"})

\* the configuration parsed from the file {}
EmptyConfig == [pattern |-> None, encoding |-> None, directoryExceptions |-> None]

TodoWord == <<"t", "o", "d", "o">>

\* new RegExp(regex).test(s), for the regexes \btodo\b (the word occurs
\* between word boundaries) and todo (the word occurs)
TodoRegexTest(regex, s) ==
    \E i \in 1..Len(s) :
        /\ LitAt(s, i, TodoWord)
        /\ regex = BaseRegex =>
              /\ (i = 1 \/ s[i - 1] \notin WordChars)
              /\ (i + 4 > Len(s) \/ s[i + 4] \notin WordChars)

\* the length test with < in place of <=
LineMatchesBelowLimit(line) ==
    /\ Len(line) < sharedConfig.pattern[1].limit
    /\ TodoRegexTest(sharedConfig.pattern[1].regex,
                     IF sharedConfig.pattern[1].caseSensitive THEN line
                     ELSE toLowerCase(line))

\* the condition under which a line yields a Todo
LineMatches(line) ==
    /\ Len(line) <= sharedConfig.pattern[1].limit
    /\ TodoRegexTest(sharedConfig.pattern[1].regex,
                     IF sharedConfig.pattern[1].caseSensitive THEN line
                     ELSE toLowerCase(line))

\* lines.forEach((line, index) => ...), from the 0-based index on
RECURSIVE ForEachLine(_, _, _)
ForEachLine(filePath, lines, index) ==
    IF index >= Len(lines) THEN <<>>
    ELSE (IF LineMatches(lines[index + 1])
          THEN <<Todo(filePath, index + 1, trim(lines[index + 1]))>>
          ELSE <<>>) \o ForEachLine(filePath, lines, index + 1)

\* how an awaited call ends: it returns a value, or it throws
Returned(value) == [threw |-> FALSE, value |-> value]
Thrown == [threw |-> TRUE, value |-> <<>>]

\* the body of the try block throws a TypeError: without an encoding
\* readFile gives a Buffer, which has no split, and without a pattern
\* sharedConfig.pattern.regex cannot be read for the first line
ScanThrowsTypeError == sharedConfig.encoding = None \/ sharedConfig.pattern = None

\* a scanFileForTodos without the try and catch: a failure reaches the caller
ScanFileUncaught(filePath, read) ==
    IF read = None \/ ScanThrowsTypeError THEN Thrown
    ELSE Returned(ForEachLine(filePath, split(read[1], "\n"), 0))

\* scanFileForTodos(filePath), read being what readFile gave: the data, or
\* None when it threw; the catch turns a failure into the return of []
scanFileForTodos(filePath, read) ==
    IF read = None \/ ScanThrowsTypeError THEN Returned(<<>>)
    ELSE Returned(ForEachLine(filePath, split(read[1], "\n"), 0))

(***************************************************************************)
(* Construction of one Todo.  The content a Todo is constructed from is a  *)
(* trimmed line that matched the pattern: here the marker followed by up   *)
(* to MaxTags tokens, separated by single spaces.  Each token of TagTable  *)
(* states, next to its text, what it is: a priority tag and its word in    *)
(* lower case, a due tag and the numbers written in it, or something else. *)
(***************************************************************************)
MaxTags == 3

Marker == <<"T", "O", "D", "O", ":">>

TagTable == <<
    [kind |-> "prio", word |-> "low", date |-> <<>>,
     text |-> AtPrio \o <<"l", "o", "w">>],
    [kind |-> "prio", word |-> "medium", date |-> <<>>,
     text |-> AtPrio \o <<"m", "e", "d", "i", "u", "m">>],
    [kind |-> "prio", word |-> "high", date |-> <<>>,
     text |-> AtPrio \o <<"h", "i", "g", "h">>],
    [kind |-> "prio", word |-> "high", date |-> <<>>,
     text |-> AtPrio \o <<"H", "i", "g", "h">>],
    [kind |-> "prio", word |-> "bogus", date |-> <<>>,
     text |-> AtPrio \o <<"b", "o", "g", "u", "s">>],
    [kind |-> "prio", word |-> "lowest", date |-> <<>>,
     text |-> AtPrio \o <<"l", "o", "w", "e", "s", "t">>],
    [kind |-> "due", word |-> "", date |-> <<2024, 3, 15>>,
     text |-> AtDue \o <<"2", "0", "2", "4", "-", "0", "3", "-", "1", "5">>],
    [kind |-> "due", word |-> "", date |-> <<2024, 3, 1>>,
     text |-> AtDue \o <<"2", "0", "2", "4", "-", "0", "3", "-", "0", "1">>],
    [kind |-> "due", word |-> "", date |-> <<2024, 1, 1>>,
     text |-> AtDue \o <<"2", "0", "2", "4", "-", "0", "1", "-", "0", "1">>],
    [kind |-> "due", word |-> "", date |-> <<2024, 2, 29>>,
     text |-> AtDue \o <<"2", "0", "2", "4", "-", "0", "2", "-", "2", "9">>],
    [kind |-> "due", word |-> "", date |-> <<2024, 13, 45>>,
     text |-> AtDue \o <<"2", "0", "2", "4", "-", "1", "3", "-", "4", "5">>],
    [kind |-> "due", word |-> "", date |-> <<2024, 2, 0>>,
     text |-> AtDue \o <<"2", "0", "2", "4", "-", "0", "2", "-", "0", "0">>],
    [kind |-> "due", word |-> "", date |-> <<2023, 2, 29>>,
     text |-> AtDue \o <<"2", "0", "2", "3", "-", "0", "2", "-", "2", "9">>],
    [kind |-> "other", word |-> "", date |-> <<>>,
     text |-> AtDue \o <<"2", "0", "2", "4", "-", "3", "-", "5">>],
    [kind |-> "resp", word |-> "", date |-> <<>>,
     text |-> AtResp \o <<"a", "l", ",", "b", "o", ",", ",", "c", "y">>],
    [kind |-> "resp", word |-> "", date |-> <<>>,
     text |-> AtResp \o <<",">>],
    [kind |-> "other", word |-> "", date |-> <<>>,
     text |-> <<"f", "i", "x">>]
>>

\* the sequences over S of length at most n
SeqsUpTo(S, n) == UNION {[1..k -> S] : k \in 0..n}

\* the texts of the tokens, each preceded by a space
RECURSIVE JoinTags(_)
JoinTags(ts) ==
    IF ts = <<>> THEN <<>> ELSE <<" ">> \o TagTable[Head(ts)].text \o JoinTags(Tail(ts))

ContentOf(ts) == Marker \o JoinTags(ts)

TodoPath == <<"a.ts">>

ConfigVars == <<sharedConfig, localConfig>>
TodoVars == <<tagTokens, content, todo>>
FileVars == <<fileLines, fileData, fileTodos>>
ScanVars == <<pc, fs, stack, walkResult, options, clock, results, summary>>

vars == <<ConfigVars, TodoVars, FileVars, ScanVars>>

\* the variables of the Todo constructor and of the file scanner when another
\* part of the program is examined
TodoIdle == tagTokens = <<>> /\ content = <<>> /\ todo = None
FileIdle == fileLines = <<>> /\ fileData = None /\ fileTodos = None
ScanIdle ==
    /\ pc = "idle" /\ fs = <<>> /\ stack = <<>> /\ walkResult = None
    /\ options = <<>> /\ clock = <<>> /\ results = None /\ summary = None

TodoInit ==
    /\ sharedConfig = BaseConfig
    /\ localConfig = None
    /\ tagTokens \in SeqsUpTo(DOMAIN TagTable, MaxTags)
    /\ content = ContentOf(tagTokens)
    /\ todo = None
    /\ FileIdle
    /\ ScanIdle

\* new Todo(filePath, index + 1, line.trim())
NewTodo ==
    /\ todo = None
    /\ todo' = Some(Todo(TodoPath, 1, content))
    /\ UNCHANGED <<ConfigVars, tagTokens, content, FileVars, ScanVars>>

TodoNext == NewTodo

TodoSpec == TodoInit /\ [][TodoNext]_vars

(***************************************************************************)
(* Properties of the Todo constructor                                      *)
(***************************************************************************)
\* the Gregorian calendar
IsLeap(y) == (y % 4 = 0 /\ y % 100 # 0) \/ y % 400 = 0

DaysIn(y, m) ==
    IF m = 2 THEN (IF IsLeap(y) THEN 29 ELSE 28)
    ELSE IF m \in {4, 6, 9, 11} THEN 30 ELSE 31

\* y-m-d is a date of the calendar
ValidDate(d) == d[2] \in 1..12 /\ d[3] >= 1 /\ d[3] <= DaysIn(d[1], d[2])

OfKind(ts, k) == SelectSeq(ts, LAMBDA t : TagTable[t].kind = k)

NotPrio(t) == TagTable[t].kind # "prio"

\* the first tag of each kind in the content, as the table states it
HasTag(k) == OfKind(tagTokens, k) # <<>>
FirstTag(k) == TagTable[Head(OfKind(tagTokens, k))]

\* C1: a Todo constructed from content whose @due=YYYY-MM-DD tag is a valid
\* calendar date has a dueDate whose year, month and day are YYYY, MM, DD.
C1_DueDateAsWritten ==
    (todo # None /\ HasTag("due") /\ ValidDate(FirstTag("due").date)) =>
        /\ todo[1].dueDate # None
        /\ CivilFromDays(todo[1].dueDate[1].day) =
               [year  |-> FirstTag("due").date[1],
                month |-> FirstTag("due").date[2],
                day   |-> FirstTag("due").date[3]]

ExpectedPriority(word) ==
    CASE word = "low" -> Some(Priority.Low)
      [] word = "medium" -> Some(Priority.Medium)
      [] word = "high" -> Some(Priority.High)
      [] OTHER -> None

\* C2: @prio=<word> gives Low, Medium or High for the words low, medium and
\* high in any case and no priority for another word, and the dueDate and
\* the responsibles are those of the same content without the @prio tags.
C2_PriorityMapping ==
    (todo # None /\ HasTag("prio")) =>
        /\ todo[1].priority = ExpectedPriority(FirstTag("prio").word)
        /\ todo[1].dueDate = determineDueDate(ContentOf(SelectSeq(tagTokens, NotPrio)))
        /\ todo[1].responsibles =
               determineResponsibles(ContentOf(SelectSeq(tagTokens, NotPrio)))

\* a Todo was constructed from content with each priority word, an unknown
\* word among them, next to a due tag and a responsibles tag
C2_Witness ==
    /\ todo # None
    /\ HasTag("prio") /\ HasTag("due") /\ HasTag("resp")
    /\ FirstTag("prio").word = "low"
    /\ todo[1].priority = Some(Priority.Low)
    /\ todo[1].dueDate # None
    /\ todo[1].responsibles # None

\* C9: a Todo constructed from content whose @due tag is no date of the
\* calendar has no dueDate, and its priority and responsibles are derived
\* as usual.
C9_InvalidDateAbsent ==
    (todo # None /\ HasTag("due") /\ ~ValidDate(FirstTag("due").date)) =>
        /\ todo[1].dueDate = None
        /\ todo[1].priority = determinePriority(content)
        /\ todo[1].responsibles = determineResponsibles(content)


(***************************************************************************)
(* The scan of one file.  The file holds up to MaxLines lines of LineTable *)
(* joined by newlines; each line states, next to its text, whether it      *)
(* holds the word todo in lower case (cs) and in any case (ci), and        *)
(* whether it holds the letters todo in lower case (sub) and in any case   *)
(* (subci).                                                                *)
(***************************************************************************)
MaxLines == 3
ShortLimit == 10

LineTable == <<
    [cs |-> TRUE, ci |-> TRUE, sub |-> TRUE, subci |-> TRUE,
     text |-> <<"t", "o", "d", "o">>],
    [cs |-> FALSE, ci |-> TRUE, sub |-> FALSE, subci |-> TRUE,
     text |-> <<"/", "/", " ", "T", "O", "D", "O", ":", " ", "x">>],
    [cs |-> FALSE, ci |-> FALSE, sub |-> TRUE, subci |-> TRUE,
     text |-> <<"t", "o", "d", "o", "s">>],
    [cs |-> FALSE, ci |-> FALSE, sub |-> TRUE, subci |-> TRUE,
     text |-> <<"a", "_", "t", "o", "d", "o">>],
    [cs |-> TRUE, ci |-> TRUE, sub |-> TRUE, subci |-> TRUE,
     text |-> <<" ", " ", "x", " ", "t", "o", "d", "o", "\r">>],
    [cs |-> FALSE, ci |-> FALSE, sub |-> FALSE, subci |-> FALSE,
     text |-> <<>>],
    [cs |-> TRUE, ci |-> TRUE, sub |-> TRUE, subci |-> TRUE,
     text |-> <<"t", "o", "d", "o", ":", " ", "r", "e", "f", "a", "c", "t", "o", "r",
                " ", "i", "t">>]
>>

\* the texts of the lines, joined by newlines
RECURSIVE JoinLines(_)
JoinLines(ls) ==
    IF Len(ls) = 1 THEN LineTable[ls[1]].text
    ELSE LineTable[Head(ls)].text \o <<"\n">> \o JoinLines(Tail(ls))

FilePath == <<".", "a.ts">>

\* the configurations a configuration file can have put in force
FileConfigs ==
    {Config(r, l, c, {}) : r \in {BaseRegex, BareRegex}, l \in {ShortLimit, BaseLimit},
                           c \in BOOLEAN}
        \cup {BaseConfig, EmptyConfig}

FileInit ==
    /\ sharedConfig \in FileConfigs
    /\ localConfig = None
    /\ fileLines \in SeqsUpTo(DOMAIN LineTable, MaxLines) \ {<<>>}
    /\ fileData \in {Some(JoinLines(fileLines)), None}
    /\ fileTodos = None
    /\ TodoIdle
    /\ ScanIdle

\* scanFileForTodos(filePath)
ScanFile ==
    /\ fileTodos = None
    /\ fileTodos' = Some(scanFileForTodos(FilePath, fileData))
    /\ UNCHANGED <<ConfigVars, TodoVars, fileLines, fileData, ScanVars>>

FileNext == ScanFile

FileSpec == FileInit /\ [][FileNext]_vars

\* a line described by the flags cs, ci, sub and subci is to match the
\* configured pattern
Holds(flags) ==
    IF sharedConfig.pattern[1].regex = BaseRegex
    THEN (IF sharedConfig.pattern[1].caseSensitive THEN flags.cs ELSE flags.ci)
    ELSE (IF sharedConfig.pattern[1].caseSensitive THEN flags.sub ELSE flags.subci)

\* the 1-based numbers of the lines that are to yield a Todo, ascending
RECURSIVE ExpectedLines(_, _)
ExpectedLines(ls, n) ==
    IF n > Len(ls) THEN <<>>
    ELSE (IF /\ Len(LineTable[ls[n]].text) <= sharedConfig.pattern[1].limit
             /\ Holds(LineTable[ls[n]])
          THEN <<n>> ELSE <<>>) \o ExpectedLines(ls, n + 1)

LinesOf(todos) == [k \in 1..Len(todos) |-> todos[k].line]

\* C3: for a readable file, under a configuration with a pattern,
\* scanFileForTodos returns one Todo for each line that is no longer than
\* pattern.limit and matches the pattern, and no other; each has the
\* 1-based number of its line, in ascending order.
C3_OneTodoPerMatchingLine ==
    (fileTodos # None /\ fileData # None /\ ~ScanThrowsTypeError) =>
        /\ ~fileTodos[1].threw
        /\ LinesOf(fileTodos[1].value) = ExpectedLines(fileLines, 1)
        /\ \A k \in 1..Len(fileTodos[1].value) : fileTodos[1].value[k].path = FilePath

\* a file was scanned in which a line holds the pattern and is too long, a
\* line of exactly the limit matches, and a later line matches
C3_Witness ==
    /\ fileTodos # None /\ fileData # None
    /\ sharedConfig = Config(BaseRegex, ShortLimit, FALSE, {})
    /\ fileLines = <<7, 2, 1>>
    /\ LinesOf(fileTodos[1].value) = <<2, 3>>


(***************************************************************************)
(* The scan command: it loads the configuration files of the directory,    *)
(* walks the directory tree, filters the Todos found and prints a summary. *)
(* A node of the tree is a directory (its entries in the order readdir     *)
(* lists them, and whether readdir succeeds), a regular file (its data,    *)
(* whether it can be read, and a description of its lines that hold the    *)
(* letters todo), a symbolic link (its target, or NoTarget when it         *)
(* dangles) or something else (a socket, a device).                        *)
(***************************************************************************)
NoTarget == 0 - 1

\* the number of symbolic links the system follows in one path before stat
\* and readdir fail with ELOOP
MaxSymlinks == 2

DirNode(entries, listable) ==
    [kind |-> "dir", entries |-> entries, listable |-> listable,
     data |-> <<>>, marks |-> <<>>, readable |-> TRUE, target |-> NoTarget]

FileNode(data, marks, readable) ==
    [kind |-> "file", entries |-> <<>>, listable |-> TRUE,
     data |-> data, marks |-> marks, readable |-> readable, target |-> NoTarget]

LinkNode(target) ==
    [kind |-> "link", entries |-> <<>>, listable |-> TRUE,
     data |-> <<>>, marks |-> <<>>, readable |-> TRUE, target |-> target]

OtherNode ==
    [kind |-> "other", entries |-> <<>>, listable |-> TRUE,
     data |-> <<>>, marks |-> <<>>, readable |-> TRUE, target |-> NoTarget]

Entry(name, node) == [name |-> name, node |-> node]

\* the description of a line of a file: its 1-based number, its length and
\* the flags cs, ci, sub and subci of LineTable
Mark(line, len, cs, ci, sub, subci) ==
    [line |-> line, len |-> len, cs |-> cs, ci |-> ci, sub |-> sub, subci |-> subci]

(***************************************************************************)
(* The configuration files.  Each row of ConfigTable is the text of a      *)
(* file of one line, what JSON.parse makes of it (None when it throws),    *)
(* and the flags of the line.                                              *)
(***************************************************************************)
ConfigTable == <<
    [parsed |-> Some(Config(BareRegex, BaseLimit, FALSE, {})),
     cs |-> TRUE, ci |-> TRUE, sub |-> TRUE, subci |-> TRUE,
     text |-> <<"{", "\"", "p", "a", "t", "t", "e", "r", "n", "\"", ":", "{", "\"", "r",
              "e", "g", "e", "x", "\"", ":", "\"", "t", "o", "d", "o", "\"", ",", "\"",
              "c", "a", "s", "e", "S", "e", "n", "s", "i", "t", "i", "v", "e", "\"",
              ":", "f", "a", "l", "s", "e", ",", "\"", "l", "i", "m", "i", "t", "\"",
              ":", "3", "0", "0", "}", ",", "\"", "e", "n", "c", "o", "d", "i", "n",
              "g", "\"", ":", "\"", "u", "t", "f", "-", "8", "\"", ",", "\"", "d", "i",
              "r", "e", "c", "t", "o", "r", "y", "E", "x", "c", "e", "p", "t", "i",
              "o", "n", "s", "\"", ":", "[", "]", "}">>],
    [parsed |-> Some(Config(BaseRegex, 4, TRUE, {"src"})),
     cs |-> FALSE, ci |-> FALSE, sub |-> TRUE, subci |-> TRUE,
     text |-> <<"{", "\"", "p", "a", "t", "t", "e", "r", "n", "\"", ":", "{", "\"", "r",
              "e", "g", "e", "x", "\"", ":", "\"", "\\", "\\", "b", "t", "o", "d", "o",
              "\\", "\\", "b", "\"", ",", "\"", "c", "a", "s", "e", "S", "e", "n", "s",
              "i", "t", "i", "v", "e", "\"", ":", "t", "r", "u", "e", ",", "\"", "l",
              "i", "m", "i", "t", "\"", ":", "4", "}", ",", "\"", "e", "n", "c", "o",
              "d", "i", "n", "g", "\"", ":", "\"", "u", "t", "f", "-", "8", "\"", ",",
              "\"", "d", "i", "r", "e", "c", "t", "o", "r", "y", "E", "x", "c", "e",
              "p", "t", "i", "o", "n", "s", "\"", ":", "[", "\"", "s", "r", "c", "\"",
              "]", "}">>],
    [parsed |-> Some(EmptyConfig),
     cs |-> FALSE, ci |-> FALSE, sub |-> FALSE, subci |-> FALSE,
     text |-> <<"{", "}">>],
    [parsed |-> None,
     cs |-> FALSE, ci |-> FALSE, sub |-> FALSE, subci |-> FALSE,
     text |-> <<"{">>]
>>

\* JSON.parse(configData): the value, or None when it throws
JsonParse(configData) ==
    (CHOOSE row \in Range(ConfigTable) : row.text = configData).parsed

SharedName == ".todoscan.json"
LocalName == ".todoscan.local.json"

\* a configuration file that holds the text of a row of ConfigTable
ConfigFile(row, readable) ==
    FileNode(ConfigTable[row].text,
             <<Mark(1, Len(ConfigTable[row].text), ConfigTable[row].cs,
                    ConfigTable[row].ci, ConfigTable[row].sub, ConfigTable[row].subci)>>,
             readable)

\* the forms of the entry b of the root directory
EntryForms == {"file", "linkToFile", "linkToDir", "linkToRoot", "dangling", "other"}

\* The tree  ./<top>/m.ts  ./<top>/<sub>/k.ts  ./b  ./z.ts  described by p:
\* b has the form p.form, the directories of p.noList cannot be listed and
\* the files of p.noRead cannot be read; the root holds the configuration
\* file of the row p.shared of ConfigTable and the local one of the row
\* p.local, or none for the row 0.
Tree(p) ==
    [id \in 0..8 |->
        CASE id = 0 -> DirNode((IF p.shared = 0 THEN <<>> ELSE <<Entry(SharedName, 7)>>)
                                   \o (IF p.local = 0 THEN <<>> ELSE <<Entry(LocalName, 8)>>)
                                   \o <<Entry(p.top, 1), Entry("b", 2), Entry("z.ts", 3)>>,
                               0 \notin p.noList)
          [] id = 1 -> DirNode(<<Entry("m.ts", 4), Entry(p.sub, 5)>>, 1 \notin p.noList)
          [] id = 2 -> CASE p.form = "file" ->
                                FileNode(<<"t", "o", "d", "o">>,
                                         <<Mark(1, 4, TRUE, TRUE, TRUE, TRUE)>>,
                                         2 \notin p.noRead)
                         [] p.form = "linkToFile" -> LinkNode(3)
                         [] p.form = "linkToDir" -> LinkNode(1)
                         [] p.form = "linkToRoot" -> LinkNode(0)
                         [] p.form = "dangling" -> LinkNode(NoTarget)
                         [] OTHER -> OtherNode
          [] id = 3 -> FileNode(<<"t", "o", "d", "o">>,
                                <<Mark(1, 4, TRUE, TRUE, TRUE, TRUE)>>, 3 \notin p.noRead)
          [] id = 4 -> FileNode(<<"x", "\n", "T", "O", "D", "O">>,
                                <<Mark(2, 4, FALSE, TRUE, FALSE, TRUE)>>,
                                4 \notin p.noRead)
          [] id = 5 -> DirNode(<<Entry("k.ts", 6)>>, 5 \notin p.noList)
          [] id = 6 -> FileNode(<<"t", "o", "d", "o", "s", "\n", "t", "o", "d", "o">>,
                                <<Mark(1, 5, FALSE, FALSE, TRUE, TRUE),
                                  Mark(2, 4, TRUE, TRUE, TRUE, TRUE)>>,
                                6 \notin p.noRead)
          [] id = 7 -> IF p.shared = 0 THEN OtherNode
                       ELSE ConfigFile(p.shared, 7 \notin p.noRead)
          [] OTHER  -> IF p.local = 0 THEN OtherNode
                       ELSE ConfigFile(p.local, 8 \notin p.noRead)]

RootPath == <<".">>

\* path.join(directory, file)
join(directory, file) == Append(directory, file)

\* path.basename(filePath)
basename(filePath) == filePath[Len(filePath)]

\* the node of the entry of the root directory with the given name, or
\* NoTarget when there is none
Lookup(name) ==
    LET named == {k \in 1..Len(fs[0].entries) : fs[0].entries[k].name = name}
    IN  IF named = {} THEN NoTarget ELSE fs[0].entries[CHOOSE k \in named : TRUE].node

\* loadConfig(directory, configType), name being the name of the file of
\* that type: the configuration it assigns, or None when it assigns none
\* (the file does not exist, or reading or parsing it throws, which the
\* catch logs)
loadConfig(name) ==
    IF Lookup(name) = NoTarget THEN None
    ELSE IF fs[Lookup(name)].kind # "file" \/ ~fs[Lookup(name)].readable THEN None
    ELSE JsonParse(fs[Lookup(name)].data)

Top == stack[Len(stack)]

\* the entry the loop of the innermost call is at
Current == fs[Top.dir].entries[Top.i]

\* a call of scanDirectory(directory) about to run
Call(dir, path, links) ==
    [dir |-> dir, path |-> path, links |-> links, pc |-> "readdir", i |-> 1,
     results |-> <<>>, file |-> NoTarget]

\* the action of the scan command up to the first await: loadConfigs sets
\* localConfig and sharedConfig from the files of the directory, then
\* scanDirectory(directory) is called and awaits readdir
LoadConfigs ==
    /\ pc = "start"
    /\ localConfig' = IF loadConfig(LocalName) = None THEN localConfig
                      ELSE loadConfig(LocalName)
    /\ sharedConfig' = IF loadConfig(SharedName) = None THEN sharedConfig
                       ELSE loadConfig(SharedName)[1]
    /\ stack' = <<Call(0, RootPath, 0)>>
    /\ pc' = "scan"
    /\ UNCHANGED <<TodoVars, FileVars, fs, walkResult, options, clock, results, summary>>

\* fs.promises.stat(filePath) for the current entry: it follows a symbolic
\* link, and throws (None) when the link dangles or when the path holds more
\* links than the system follows
Stat ==
    IF fs[Current.node].kind = "link"
    THEN IF fs[Current.node].target = NoTarget \/ Top.links + 1 > MaxSymlinks
         THEN None
         ELSE Some([node |-> fs[Current.node].target, links |-> Top.links + 1])
    ELSE Some([node |-> Current.node, links |-> Top.links])

\* fs.promises.readFile(filePath): the data, or None when it throws
ReadFile(node) == IF fs[node].readable THEN Some(fs[node].data) ELSE None

\* a directory test that excludes nothing
ExcludesNothing(dirName) == FALSE

\* sharedConfig.directoryExceptions.includes(dirName)
IsException(dirName) == dirName \in sharedConfig.directoryExceptions[1]

\* results.concat(more)
concat(res, more) == res \o more

\* return results: the caller concatenates them to its own and goes on with
\* its next entry; the outermost call hands them to the scan command
Return(res) ==
    IF Len(stack) = 1
    THEN /\ stack' = <<>>
         /\ walkResult' = Some(res)
    ELSE /\ stack' = Append(SubSeq(stack, 1, Len(stack) - 2),
                            [stack[Len(stack) - 1] EXCEPT
                                !.results = concat(@, res), !.i = @ + 1])
         /\ UNCHANGED walkResult

\* the innermost call goes on with its next entry, having added more
Continue(more) ==
    /\ stack' = [stack EXCEPT ![Len(stack)] =
                    [@ EXCEPT !.results = concat(@, more), !.i = @ + 1,
                              !.pc = "loop", !.file = NoTarget]]
    /\ UNCHANGED walkResult

Unchanged == UNCHANGED <<ConfigVars, TodoVars, FileVars, pc, fs, options, clock,
                         results, summary>>

\* the innermost call awaits stat for an entry of its directory
InLoop == stack # <<>> /\ Top.pc = "loop" /\ Top.i <= Len(fs[Top.dir].entries)

\* the entry is a directory
IsDirectory == Stat # None /\ fs[Stat[1].node].kind = "dir"

\* readdir(directory) succeeds: the loop awaits stat for the first entry
ReadDir ==
    /\ stack # <<>> /\ Top.pc = "readdir"
    /\ fs[Top.dir].listable
    /\ stack' = [stack EXCEPT ![Len(stack)].pc = "loop"]
    /\ UNCHANGED walkResult
    /\ Unchanged

\* readdir(directory) throws: the catch logs and the call returns its results
ReadDirThrows ==
    /\ stack # <<>> /\ Top.pc = "readdir"
    /\ ~fs[Top.dir].listable
    /\ Return(Top.results)
    /\ Unchanged

\* the body of the loop throws: stat(filePath) does, or the entry is a
\* directory and sharedConfig.directoryExceptions is undefined.  The catch,
\* which encloses the loop, logs and the call returns the results it has
LoopThrows ==
    /\ InLoop
    /\ Stat = None \/ (IsDirectory /\ sharedConfig.directoryExceptions = None)
    /\ Return(Top.results)
    /\ Unchanged

\* the entry is a directory that is no exception: scanDirectory(filePath)
EnterDirectory ==
    /\ InLoop
    /\ IsDirectory
    /\ sharedConfig.directoryExceptions # None
    /\ ~IsException(basename(join(Top.path, Current.name)))
    /\ stack' = Append(stack, Call(Stat[1].node, join(Top.path, Current.name),
                                   Stat[1].links))
    /\ UNCHANGED walkResult
    /\ Unchanged

\* the entry is a directory that is an exception
SkipException ==
    /\ InLoop
    /\ IsDirectory
    /\ sharedConfig.directoryExceptions # None
    /\ IsException(basename(join(Top.path, Current.name)))
    /\ Continue(<<>>)
    /\ Unchanged

\* the entry is a file: scanFileForTodos(filePath) is called and awaits
\* readFile
StatFile ==
    /\ InLoop
    /\ Stat # None
    /\ fs[Stat[1].node].kind = "file"
    /\ stack' = [stack EXCEPT ![Len(stack)] =
                    [@ EXCEPT !.pc = "readFile", !.file = Stat[1].node]]
    /\ UNCHANGED walkResult
    /\ Unchanged

\* readFile is over: scanFileForTodos goes through the lines and returns,
\* and the loop concatenates what it returned
ScanEntry ==
    /\ stack # <<>> /\ Top.pc = "readFile"
    /\ LET scanned == scanFileForTodos(join(Top.path, Current.name), ReadFile(Top.file))
       IN  IF scanned.threw THEN Return(Top.results) ELSE Continue(scanned.value)
    /\ Unchanged

\* the entry is neither a directory nor a file
SkipEntry ==
    /\ InLoop
    /\ Stat # None
    /\ fs[Stat[1].node].kind \notin {"dir", "file"}
    /\ Continue(<<>>)
    /\ Unchanged

\* the loop is over: return results
EndOfDirectory ==
    /\ stack # <<>> /\ Top.pc = "loop" /\ Top.i > Len(fs[Top.dir].entries)
    /\ Return(Top.results)
    /\ Unchanged

(***************************************************************************)
(* The filters of the options and the counts of the summary.  An instant   *)
(* is a day number and the milliseconds since local midnight, as a Date    *)
(* is.                                                                     *)
(***************************************************************************)
Instant(day, ms) == [day |-> day, ms |-> ms]

\* a < b and a <= b on instants (the comparison of two dayjs objects
\* compares their valueOf())
Before(a, b) == a.day < b.day \/ (a.day = b.day /\ a.ms < b.ms)
NotAfter(a, b) == a.day < b.day \/ (a.day = b.day /\ a.ms <= b.ms)

\* dayjs(text) for the text of a date YYYY-MM-DD, given by its numbers:
\* local midnight of that date; no valid instant (None) for another text
DayjsParse(date) ==
    IF date = <<>> THEN None ELSE Some(NewDate(date[1], date[2] - 1, date[3]))

\* the day of the week of a day number, 0 being Sunday
DayOfWeek(day) == (day + 4) % 7

\* dayjs(t).endOf('day'), endOf('week') (weeks start on Sunday) and
\* endOf('month'): the last millisecond of the day, week and month of t
LastMs == 86400000 - 1
EndOfDay(t) == Instant(t.day, LastMs)
EndOfWeek(t) == Instant(t.day + 6 - DayOfWeek(t.day), LastMs)
EndOfMonth(t) ==
    LET c == CivilFromDays(t.day)
    IN  Instant(NewDate(c.year, c.month, 0).day, LastMs)

\* todo.responsibles?.includes(user)
UserFilter(user, t) ==
    t.responsibles # None /\ \E k \in 1..Len(t.responsibles[1]) : t.responsibles[1][k] = user

\* todo.priority === options.priority
PriorityFilter(priority, t) == t.priority = Some(priority)

\* dayjs(todo.dueDate) <= dayjs(options.due), where dayjs(undefined) is the
\* time read at the call and a comparison with no valid instant is false
DueFilter(due, read, t) ==
    /\ DayjsParse(due) # None
    /\ NotAfter(IF t.dueDate = None THEN read ELSE t.dueDate[1], DayjsParse(due)[1])

\* results.filter of the due option: the k-th call of the predicate reads
\* the clock as reads[k]
RECURSIVE FilterByDue(_, _, _, _)
FilterByDue(due, reads, todos, k) ==
    IF k > Len(todos) THEN <<>>
    ELSE (IF DueFilter(due, reads[k], todos[k]) THEN <<todos[k]>> ELSE <<>>)
             \o FilterByDue(due, reads, todos, k + 1)

\* the priority counts of the summary (the counters of results.reduce)
PriorityCounts(todos) ==
    [high |-> Len(SelectSeq(todos, LAMBDA t : t.priority = Some(Priority.High))),
     med  |-> Len(SelectSeq(todos, LAMBDA t : t.priority = Some(Priority.Medium))),
     low  |-> Len(SelectSeq(todos, LAMBDA t : t.priority = Some(Priority.Low)))]

\* the bucket the reduce of the summary counts a Todo in, or "none"
Bucket(t, now, endOfDay, endOfWeek, endOfMonth) ==
    IF t.dueDate = None THEN "none"
    ELSE IF Before(t.dueDate[1], now) THEN "pastDue"
    ELSE IF Before(t.dueDate[1], endOfDay) THEN "dueDay"
    ELSE IF Before(t.dueDate[1], endOfWeek) THEN "dueWeek"
    ELSE IF Before(t.dueDate[1], endOfMonth) THEN "dueMonth"
    ELSE "none"

\* the due-date counts of the summary; r holds the four readings of the
\* clock: dayjs(), dayjs().endOf('day'), dayjs().endOf('week'),
\* dayjs().endOf('month')
DueCounts(todos, r) ==
    LET B(t) == Bucket(t, r[1], EndOfDay(r[2]), EndOfWeek(r[3]), EndOfMonth(r[4]))
    IN  [pastDue  |-> Len(SelectSeq(todos, LAMBDA t : B(t) = "pastDue")),
         dueDay   |-> Len(SelectSeq(todos, LAMBDA t : B(t) = "dueDay")),
         dueWeek  |-> Len(SelectSeq(todos, LAMBDA t : B(t) = "dueWeek")),
         dueMonth |-> Len(SelectSeq(todos, LAMBDA t : B(t) = "dueMonth"))]

(***************************************************************************)
(* The command runs on Wednesday 2024-01-10: it starts at midnight, at     *)
(* noon or in the last millisecond of the day, and a later reading of the  *)
(* clock is not earlier than a former one.                                 *)
(***************************************************************************)
Today == DaysFromCivil(2024, 1, 10)

Noon == 12 * 3600000

Instants == {Instant(Today, 0), Instant(Today, Noon), Instant(Today, LastMs)}

\* the sequences of n readings of the clock from the instant t on, in order
RECURSIVE ReadingsFrom(_, _)
ReadingsFrom(t, n) ==
    IF n = 0 THEN {<<>>}
    ELSE UNION {{<<u>> \o r : r \in ReadingsFrom(u, n - 1)} :
                    u \in {i \in Instants : NotAfter(t, i)}}

\* the readings of the clock of one run
Readings(n) == ReadingsFrom(clock, n)

\* const originalResults = await scanDirectory(directory)
originalResults == walkResult[1]

\* results after the filter of the user option
AfterUser ==
    IF options.user = None THEN originalResults
    ELSE SelectSeq(originalResults, LAMBDA t : UserFilter(options.user[1], t))

\* results after the filter of the priority option, which is put in lower
\* case first
AfterPriority ==
    IF options.priority = None THEN AfterUser
    ELSE SelectSeq(AfterUser, LAMBDA t : PriorityFilter(toLowerCase(options.priority[1]), t))

\* results after the filter of the due option
AfterDue(reads) ==
    IF options.due = None THEN AfterPriority
    ELSE FilterByDue(options.due[1], reads, AfterPriority, 1)

\* the action of the scan command after scanDirectory returned: the three
\* filters, of which the one of the priority option assigns the option in
\* lower case, then the summary unless the quiet option is set
Report ==
    /\ pc = "scan" /\ stack = <<>> /\ walkResult # None
    /\ LET n == IF options.due = None THEN 0 ELSE Len(AfterPriority)
       IN  \E r \in Readings(n + 4) :
             /\ results' = Some(AfterDue(r))
             /\ summary' = IF options.quiet THEN None
                           ELSE Some([priority |-> PriorityCounts(AfterDue(r)),
                                      due |-> DueCounts(AfterDue(r), SubSeq(r, n + 1, n + 4)),
                                      now |-> r[n + 1]])
    /\ options' = IF options.priority = None THEN options
                  ELSE [options EXCEPT !.priority = Some(toLowerCase(@[1]))]
    /\ pc' = "done"
    /\ UNCHANGED <<ConfigVars, TodoVars, FileVars, fs, stack, walkResult, clock>>

ScanNext ==
    \/ LoadConfigs
    \/ ReadDir
    \/ ReadDirThrows
    \/ LoopThrows
    \/ EnterDirectory
    \/ SkipException
    \/ StatFile
    \/ ScanEntry
    \/ SkipEntry
    \/ EndOfDirectory
    \/ Report

(***************************************************************************)
(* The walk.  The command is run without filters on every tree of the      *)
(* form of Tree in which at most MaxFaults directories and files fail,     *)
(* with each configuration file of ConfigTable or none.                    *)
(***************************************************************************)
MaxFaults == 1

TreeParams ==
    [top : {"src", "node_modules"}, sub : {"lib", "vendor"}, form : EntryForms,
     noList : SUBSET {0, 1, 5}, noRead : SUBSET {2, 3, 4, 6, 7},
     shared : 0..Len(ConfigTable), local : 0..1]

WalkInit ==
    /\ sharedConfig = BaseConfig
    /\ localConfig = None
    /\ pc = "start"
    /\ \E p \in TreeParams :
            /\ Cardinality(p.noList) + Cardinality(p.noRead) <= MaxFaults
            /\ fs = Tree(p)
    /\ stack = <<>>
    /\ walkResult = None
    /\ options = [user |-> None, priority |-> None, due |-> None, quiet |-> TRUE]
    /\ clock = Instant(Today, Noon)
    /\ results = None
    /\ summary = None
    /\ TodoIdle
    /\ FileIdle

WalkSpec == WalkInit /\ [][ScanNext]_vars

(***************************************************************************)
(* Properties of the walk                                                  *)
(***************************************************************************)
\* the names and the form the tree was built with
TopName == fs[0].entries[CHOOSE k \in 1..Len(fs[0].entries) : fs[0].entries[k].node = 1].name
SubName == fs[1].entries[2].name
EntryIsLink == fs[2].kind = "link"

\* the configuration in force has all that the walk reads
WellFormed ==
    /\ sharedConfig.pattern # None
    /\ sharedConfig.encoding # None
    /\ sharedConfig.directoryExceptions # None

Excluded(name) ==
    sharedConfig.directoryExceptions # None /\ name \in sharedConfig.directoryExceptions[1]

\* the Todos returned so far by any call, and those held by the pending calls
EveryTodo ==
    (IF walkResult = None THEN {} ELSE Range(walkResult[1]))
        \cup UNION {Range(stack[k].results) : k \in 1..Len(stack)}

\* the line numbers of the Todos of the result whose path is path, in order
LinesAt(path) == LinesOf(SelectSeq(walkResult[1], LAMBDA t : t.path = path))

\* The regular files of the tree that no exception covers, each with the
\* path of real directories that leads to it and the directories on it.
RealFiles ==
    {[path |-> <<".", "z.ts">>, node |-> 3, under |-> {0}]}
        \cup (IF fs[2].kind = "file"
              THEN {[path |-> <<".", "b">>, node |-> 2, under |-> {0}]} ELSE {})
        \cup (IF Lookup(SharedName) # NoTarget
              THEN {[path |-> <<".", SharedName>>, node |-> 7, under |-> {0}]} ELSE {})
        \cup (IF Lookup(LocalName) # NoTarget
              THEN {[path |-> <<".", LocalName>>, node |-> 8, under |-> {0}]} ELSE {})
        \cup (IF ~Excluded(TopName)
              THEN {[path |-> <<".", TopName, "m.ts">>, node |-> 4, under |-> {0, 1}]}
              ELSE {})
        \cup (IF ~Excluded(TopName) /\ ~Excluded(SubName)
              THEN {[path |-> <<".", TopName, SubName, "k.ts">>, node |-> 6,
                     under |-> {0, 1, 5}]}
              ELSE {})

\* a described line is within the limit and is to match the pattern
Fits(mark) == mark.len <= sharedConfig.pattern[1].limit /\ Holds(mark)

\* what a file is to contribute: the numbers of its lines that are within
\* the limit and hold the pattern, or nothing when it cannot be read
Contribution(f) ==
    IF fs[f.node].readable THEN LinesOf(SelectSeq(fs[f.node].marks, Fits)) ELSE <<>>

\* readdir and stat succeed everywhere in the tree
NoTraversalError ==
    /\ \A d \in {0, 1, 5} : fs[d].listable
    /\ ~(EntryIsLink /\ fs[2].target \in {NoTarget, 0})

\* C4: no Todo of the walk has a path that passes through a directory whose
\* name is one of directoryExceptions, at any depth.
C4_NothingUnderException ==
    \A t \in EveryTodo :
        \A k \in 2..(Len(t.path) - 1) : ~Excluded(t.path[k])

\* a walk is over of a tree that holds node_modules with a file and a
\* subdirectory with a file in it, all readable, and it found Todos elsewhere
C4_Witness ==
    /\ walkResult # None
    /\ sharedConfig = BaseConfig
    /\ TopName = "node_modules"
    /\ NoTraversalError
    /\ \A n \in {4, 6} : fs[n].readable /\ Contribution([node |-> n]) # <<>>
    /\ LinesAt(<<".", "z.ts">>) = <<1>>
    /\ LinesAt(<<".", "node_modules", "m.ts">>) = <<>>

\* C5: when readdir and stat succeed, under a configuration that has all
\* the walk reads, a file that cannot be read contributes no Todo, every
\* other file outside the exceptions contributes its own, and the walk
\* returns.
C5_ReadErrorIsLocal ==
    (walkResult # None /\ WellFormed /\ NoTraversalError) =>
        \A f \in RealFiles : LinesAt(f.path) = Contribution(f)

\* a walk is over in which m.ts could not be read, and its sibling directory
\* and the files after its directory were scanned
C5_Witness ==
    /\ walkResult # None
    /\ sharedConfig = BaseConfig
    /\ NoTraversalError
    /\ TopName = "src" /\ SubName = "lib"
    /\ ~fs[4].readable
    /\ LinesAt(<<".", "src", "m.ts">>) = <<>>
    /\ LinesAt(<<".", "src", "lib", "k.ts">>) = <<2>>
    /\ LinesAt(<<".", "z.ts">>) = <<1>>

\* C6: when listing a directory or inspecting an entry fails, every file
\* outside the failing entry's subtree (and outside the exceptions) still
\* contributes its Todos.
C6_TraversalErrorIsLocal ==
    (walkResult # None /\ WellFormed) =>
        \A f \in RealFiles :
            (\A d \in f.under : fs[d].listable) => LinesAt(f.path) = Contribution(f)

\* C10: no Todo of the walk has a path that passes through a symbolic link.
C10_NoTodoThroughLink ==
    \A t \in EveryTodo : ~(EntryIsLink /\ t.path[2] = "b")

(***************************************************************************)
(* The filters and the summary.  The command is run with every choice of   *)
(* the options on three trees in which z.ts holds up to MaxFound lines of  *)
(* FoundTable, each stating the date written in its due tag, if any.       *)
(***************************************************************************)
MaxFound == 2

FoundTable == <<
    [date |-> <<>>,
     text |-> Marker \o <<" ", "x">>],
    [date |-> <<2024, 1, 5>>,
     text |-> Marker \o <<" ">> \o AtDue \o <<"2", "0", "2", "4", "-", "0", "1", "-", "0", "5", " ", "@", "p", "r", "i", "o", "=", "h", "i", "g", "h">>],
    [date |-> <<2024, 1, 10>>,
     text |-> Marker \o <<" ">> \o AtDue \o <<"2", "0", "2", "4", "-", "0", "1", "-", "1", "0", " ", "@", "r", "e", "s", "p", "=", "a", "l">>],
    [date |-> <<2024, 1, 11>>,
     text |-> Marker \o <<" ">> \o AtDue \o <<"2", "0", "2", "4", "-", "0", "1", "-", "1", "1">>],
    [date |-> <<2024, 1, 13>>,
     text |-> Marker \o <<" ">> \o AtDue \o <<"2", "0", "2", "4", "-", "0", "1", "-", "1", "3">>],
    [date |-> <<2024, 1, 25>>,
     text |-> Marker \o <<" ">> \o AtDue \o <<"2", "0", "2", "4", "-", "0", "1", "-", "2", "5">>],
    [date |-> <<2024, 2, 5>>,
     text |-> Marker \o <<" ">> \o AtDue \o <<"2", "0", "2", "4", "-", "0", "2", "-", "0", "5">>]
>>

\* the file z.ts that holds the given lines of FoundTable
RECURSIVE JoinFound(_)
JoinFound(lines) ==
    IF lines = <<>> THEN <<>>
    ELSE IF Len(lines) = 1 THEN FoundTable[lines[1]].text
    ELSE FoundTable[Head(lines)].text \o <<"\n">> \o JoinFound(Tail(lines))

FoundFile(lines) ==
    FileNode(JoinFound(lines),
             [k \in 1..Len(lines) |->
                 Mark(k, Len(FoundTable[lines[k]].text), FALSE, TRUE, FALSE, TRUE)],
             TRUE)

\* a tree with an excluded directory and an entry that is no file, a tree
\* with a directory that cannot be listed and a dangling link, and a tree
\* with a configuration file
CommandTrees ==
    {[top |-> "vendor", sub |-> "lib", form |-> "other", noList |-> {}, noRead |-> {},
      shared |-> 0, local |-> 0],
     [top |-> "src", sub |-> "lib", form |-> "dangling", noList |-> {5}, noRead |-> {},
      shared |-> 0, local |-> 0],
     [top |-> "vendor", sub |-> "lib", form |-> "other", noList |-> {1}, noRead |-> {},
      shared |-> 1, local |-> 0]}

User == <<"a", "l">>

CommandInit ==
    /\ sharedConfig = BaseConfig
    /\ localConfig = None
    /\ pc = "start"
    /\ \E p \in CommandTrees, lines \in SeqsUpTo(DOMAIN FoundTable, MaxFound) :
            fs = [Tree(p) EXCEPT ![3] = FoundFile(lines)]
    /\ stack = <<>>
    /\ walkResult = None
    /\ options \in [user     : {None, Some(User)},
                    priority : {None, Some(<<"H", "i", "g", "h">>)},
                    due      : {None, Some(<<>>), Some(<<2024, 1, 10>>),
                                Some(<<2024, 12, 31>>)},
                    quiet    : BOOLEAN]
    /\ clock \in Instants
    /\ results = None
    /\ summary = None
    /\ TodoIdle
    /\ FileIdle

CommandSpec == CommandInit /\ [][ScanNext]_vars

(***************************************************************************)
(* Properties of the scan command                                          *)
(***************************************************************************)
\* C7: the filter of the due option keeps the Todos whose dueDate is present
\* and not after the given date, and no other; a Todo without dueDate is
\* never kept.
C7_DueFilterKeepsDatedOnly ==
    (results # None /\ options.due # None /\ DayjsParse(options.due[1]) # None) =>
        results[1] =
            SelectSeq(AfterPriority,
                LAMBDA t : /\ t.dueDate # None
                           /\ NotAfter(t.dueDate[1], DayjsParse(options.due[1])[1]))

\* the date written in the due tag of a Todo, or <<>> when it has none
TagDate(t) ==
    LET rows == {row \in Range(FoundTable) : row.text = t.content}
    IN  IF rows = {} THEN <<>> ELSE (CHOOSE row \in rows : TRUE).date

\* the bucket of a date written in a tag, by calendar days: before today,
\* today, up to the Saturday that ends the week, up to the last day of the
\* month, or none
BucketOfDate(date, today) ==
    LET day   == DaysFromCivil(date[1], date[2], date[3])
        civil == CivilFromDays(today)
    IN  IF day < today THEN "pastDue"
        ELSE IF day = today THEN "dueDay"
        ELSE IF day <= today + 6 - DayOfWeek(today) THEN "dueWeek"
        ELSE IF day <= DaysFromCivil(civil.year, civil.month, DaysIn(civil.year, civil.month))
             THEN "dueMonth"
        ELSE "none"

TaggedIn(bucket) ==
    Len(SelectSeq(results[1],
            LAMBDA t : /\ TagDate(t) # <<>>
                       /\ BucketOfDate(TagDate(t), summary[1].now.day) = bucket))

\* C8: the summary counts each Todo with a due tag in the bucket of the
\* date written in the tag relative to the current date: pastDue before
\* today, dueToday today, then dueThisWeek, dueThisMonth, or no bucket.
C8_BucketsByTaggedDate ==
    summary # None =>
        summary[1].due = [pastDue  |-> TaggedIn("pastDue"),
                          dueDay   |-> TaggedIn("dueDay"),
                          dueWeek  |-> TaggedIn("dueWeek"),
                          dueMonth |-> TaggedIn("dueMonth")]

=============================================================================
